---- MODULE Spec2Model ----
(***************************************************************************)
(* AgentLedger: audit records written into the memo field of a ledger and  *)
(* read back by replaying signature history.                               *)
(*                                                                         *)
(* Two implementations live in the repository:                             *)
(*   "M"  src/src/sdk/AgentLedger.ts  (MemoPayload schema, v = "1")         *)
(*   "A"  src/sdk/index.ts            (AgentAction schema, v = 1)           *)
(* The module models query and verify of both, one action per step between *)
(* two suspension points (await) of the code.                              *)
(***************************************************************************)
EXTENDS Integers, Sequences, FiniteSets, TLC

\* ------------------------------------------------------------------ bounds
MaxHist == 3      \* longest enumerated history (number of transactions)
MaxTime == 2      \* largest Unix time of the enumerated records and windows
MaxLimit == 2     \* largest enumerated options.limit
LongLen == 51     \* length of the uniform long history (exceeds the default cap)
MaxHeliusCalls == 3  \* Helius requests of one call of implementation A that are followed
MaxIx == 2        \* longest enumerated instruction list of the verified transaction

\* ------------------------------------------------------- program constants
DefaultLimit == 50       \* options.limit ?? 50
MaxSignatures == 1000    \* Math.min(limit * 4, 1000)
Oversample == 4          \* limit * 4
HeliusPageMax == 100     \* Math.min(100, ...)
HeliusOversample == 3    \* (limit - entries.length) * 3
CONCURRENCY == 10
MEMO_PROGRAM_ID == "MemoSq4gqABAXKb96qnH8TysNcWxMyWCqXgDLGmfcHr"
SYSTEM_PROGRAM_ID == "11111111111111111111111111111111"

SecondOf(a, b) == b

\* Math.min(a, b)
Min(a, b) == IF a < b THEN a ELSE b

\* --------------------------------------------------------------- JS values
\* A JavaScript value is a tagged record, so that "1" and 1 are different
\* values and typeof is computed as the language computes it.
Undefined == [t |-> "undefined"]
JNull == [t |-> "null"]
Str(s) == [t |-> "string", s |-> s]
Num(n) == [t |-> "number", n |-> n]
Obj(f) == [t |-> "object", o |-> f]

\* typeof x (typeof null is "object")
TypeOf(x) == IF x.t = "null" THEN "object" ELSE x.t

\* x[k] of a non-null value: undefined unless x is an object that has the key
Get(x, k) == IF x.t = "object" /\ k \in DOMAIN x.o THEN x.o[k] ELSE Undefined

\* x ?? d
Coalesce(x, d) == IF x.t \in {"null", "undefined"} THEN d ELSE x

\* A memo text is a string: either the serialisation of a JSON value or text
\* that is no JSON at all.
JsonText(v) == [json |-> v]
NotJson(s) == [junk |-> s]
IsString(x) == "json" \in DOMAIN x \/ "junk" \in DOMAIN x

\* String(x): a string stays, an object becomes "[object Object]"
ToText(x) == IF IsString(x) THEN x ELSE NotJson("[object Object]")

\* JSON.parse: a value, or a thrown SyntaxError (ok = FALSE)
JSONParse(text) ==
    IF "json" \in DOMAIN ToText(text)
    THEN [ok |-> TRUE, val |-> text.json]
    ELSE [ok |-> FALSE]

\* Buffer.from(data, "base64").toString("utf8") of the base64 form of a text
Base64(text) == [b64 |-> text]
FromBase64(data) == data.b64

\* ------------------------------------------------------------ instructions
\* The shapes getParsedTransaction gives an instruction:
\*   a memo the node parsed      {program: "spl-memo", programId, parsed: <text>}
\*   a memo it left undecoded    {programId, accounts, data: <base64>}
\*   an instruction of another program, parsed into an object
ParsedMemoIx(text) ==
    [program |-> "spl-memo", programId |-> MEMO_PROGRAM_ID, parsed |-> text]
RawMemoIx(text) == [programId |-> MEMO_PROGRAM_ID, data |-> Base64(text)]
OtherIx ==
    [program |-> "system", programId |-> SYSTEM_PROGRAM_ID,
     parsed |-> [info |-> "transfer"]]

\* ------------------------------------------------- implementation M: pure
\* isValidMemoPayload (v === "1", agent and action strings, ts a number)
isValidMemoPayload(payload) ==
    IF TypeOf(payload) # "object" \/ payload = JNull
    THEN FALSE
    ELSE /\ Get(payload, "v") = Str("1")
         /\ TypeOf(Get(payload, "agent")) = "string"
         /\ TypeOf(Get(payload, "action")) = "string"
         /\ TypeOf(Get(payload, "ts")) = "number"

\* First branch of the loop body of extractMemoFromParsedTx: the instruction
\* is a parsed spl-memo whose text is JSON and valid. The payload, or JNull.
ParsedBranch(ix) ==
    IF "parsed" \in DOMAIN ix /\ ix.program = "spl-memo"
    THEN LET r == JSONParse(ix.parsed)
         IN IF r.ok /\ isValidMemoPayload(r.val) THEN r.val ELSE JNull
    ELSE JNull

\* Second branch: a raw instruction of the memo program, data in base64.
RawBranch(ix) ==
    IF "programId" \in DOMAIN ix /\ ix.programId = MEMO_PROGRAM_ID
       /\ "data" \in DOMAIN ix
    THEN LET r == JSONParse(FromBase64(ix.data))
         IN IF r.ok /\ isValidMemoPayload(r.val) THEN r.val ELSE JNull
    ELSE JNull

\* What one pass of the loop body returns for an instruction (JNull: goes on)
MemoOfIx(ix) ==
    IF ParsedBranch(ix) # JNull THEN ParsedBranch(ix) ELSE RawBranch(ix)

FirstIxOnly(ixs) == IF ixs = <<>> THEN JNull ELSE MemoOfIx(Head(ixs))

RECURSIVE FirstMemo(_)
FirstMemo(ixs) ==
    IF ixs = <<>> THEN JNull
    ELSE IF MemoOfIx(Head(ixs)) # JNull THEN MemoOfIx(Head(ixs))
    ELSE FirstMemo(Tail(ixs))

\* extractMemoFromParsedTx(tx): tx is JNull or a parsed transaction
extractMemoFromParsedTx(tx) ==
    IF tx = JNull \/ "instructions" \notin DOMAIN tx THEN JNull
    ELSE FirstMemo(tx.instructions)

\* if (options.k && ...): the option is supplied and truthy
TruthyStr(options, k) == k \in DOMAIN options /\ options[k] # ""
TruthyNum(options, k) == k \in DOMAIN options /\ options[k] # 0

\* matchesMemoFilters(memo, options)
matchesMemoFilters(memo, options) ==
    /\ ~(TruthyStr(options, "agentId")
         /\ Get(memo, "agent") # Str(options.agentId))
    /\ ~(TruthyStr(options, "action")
         /\ Get(memo, "action") # Str(options.action))
    /\ ~(TruthyNum(options, "after") /\ Get(memo, "ts").n < options.after)
    /\ ~(TruthyNum(options, "before") /\ Get(memo, "ts").n > options.before)

\* options.limit ?? 50
LimitOf(options) ==
    IF "limit" \in DOMAIN options THEN options.limit ELSE DefaultLimit

\* The block-time pre-filter of both query loops of M: the candidate passes
BlockTimePasses(blockTime, options) ==
    /\ ~(TruthyNum(options, "after") /\ blockTime < options.after)
    /\ ~(TruthyNum(options, "before") /\ blockTime > options.before)

\* sigInfo.blockTime ?? 0, as a number
BlockTimeOrZero(sigInfo) == Coalesce(sigInfo.blockTime, Num(0)).n

\* The LogEntry pushed for a candidate (explorerUrl is a function of signature)
MkEntry(sigInfo, memo) ==
    [signature |-> sigInfo.signature, blockTime |-> BlockTimeOrZero(sigInfo),
     slot |-> sigInfo.slot, memo |-> memo]

\* ------------------------------------------------------------------- state
VARIABLES
    impl,          \* "M" or "A": which implementation the instance is
    heliusApiKey,  \* TRUE when a Helius key is configured
    options,       \* QueryOptions of the call
    chain,         \* the ledger: the address's transactions, newest first
    arg,           \* the argument of the call (verify: the signature asked about)
    pc,            \* position of the call
    entries,       \* entries collected so far
    signatures,    \* the listing being walked (standard path) or the page
    i,             \* candidates of `signatures` already consumed
    batchSize,     \* page size asked of the last Helius listing
    before,        \* paging cursor: <<>> or <<the last signature seen>>
    txs,           \* details fetched for the current chunk
    inflight,      \* positions of the chunk whose fetch has not settled
    result,        \* what the call gave its caller
    listCalls,     \* getSignaturesForAddress requests on the connection
    heliusCalls,   \* listing requests sent to Helius
    heliusOutcome, \* how the last Helius request ended
    fetched,       \* getParsedTransaction requests, per signature
    network,       \* this.network of the instance
    rpcCalls,      \* requests log and requestAirdrop sent to a node
    sent,          \* transactions log submitted, in order
    other          \* the locals of a second call suspended at an await

vars == <<impl, heliusApiKey, options, chain, arg, pc, entries, signatures, i,
          batchSize, before, txs, inflight, result, listCalls, heliusCalls,
          heliusOutcome, fetched, network, rpcCalls, sent,
          other>>

\* ------------------------------------------------------------- the ledger
\* A transaction of the address as the node holds it. `fetch` is what
\* getParsedTransaction does for it: "ok", "null" (resolves null) or "reject".
Tx(blockTime, err, fetch, instructions, logMessages) ==
    [blockTime |-> blockTime, err |-> err, fetch |-> fetch,
     instructions |-> instructions, logMessages |-> logMessages]

\* Signatures are positions in the history (distinct); slots fall with age.
MkChain(s) ==
    [k \in 1..Len(s) |-> s[k] @@ [signature |-> k, slot |-> Len(s) - k + 1]]
\* a listing row that never reports a failure
SigInfoNoErr(tx) ==
    [signature |-> tx.signature, blockTime |-> tx.blockTime,
     slot |-> tx.slot, err |-> FALSE]

SigInfo(tx) ==
    [signature |-> tx.signature, blockTime |-> tx.blockTime,
     slot |-> tx.slot, err |-> tx.err]

\* getSignaturesForAddress(address, {limit: n}): the cursor is not passed
ListNewest(cursor, n) == [k \in 1..Min(n, Len(chain)) |-> SigInfo(chain[k])]

\* getSignaturesForAddress(address, {limit: n, before: cursor})
ListSignatures(cursor, n) ==
    LET from == IF cursor = <<>> THEN 0 ELSE cursor[1]
    IN [k \in 1..Min(n, Len(chain) - from) |-> SigInfo(chain[from + k])]

\* The value getParsedTransaction resolves to, when it resolves
ParsedTx(sig) ==
    IF sig \in 1..Len(chain) /\ chain[sig].fetch = "ok"
    THEN [blockTime |-> chain[sig].blockTime, slot |-> chain[sig].slot,
          instructions |-> chain[sig].instructions,
          logMessages |-> chain[sig].logMessages]
    ELSE JNull

FetchRejects(sig) == sig \in 1..Len(chain) /\ chain[sig].fetch = "reject"

\* ----------------------------------------------- implementation M: query
CapReachedStrict(es, limit) == Len(es) > limit

\* entries.length >= limit
CapReached(es, limit) == Len(es) >= limit

Return(es) ==
    /\ result' = [status |-> "returned", value |-> es]
    /\ pc' = "done"

\* the promise of the call rejects with the error thrown by `what`
Reject(what) ==
    /\ result' = [status |-> "rejected", error |-> what]
    /\ pc' = "done"

\* query, up to its first await: the Helius path if a key is configured,
\* else the listing request of the standard path
Query ==
    /\ pc = "start" /\ impl = "M"
    /\ IF heliusApiKey
       THEN pc' = "h_loop" /\ UNCHANGED listCalls
       ELSE pc' = "list" /\ listCalls' = listCalls + 1
    /\ UNCHANGED <<other, network, rpcCalls, sent, impl, heliusApiKey, options, chain, arg, entries,
                   signatures, i, batchSize, before, txs, inflight, result,
                   heliusCalls, heliusOutcome, fetched>>

\* the listing resolves
ListReturn ==
    /\ pc = "list" /\ impl = "M"
    /\ signatures' =
          ListSignatures(<<>>, Min(LimitOf(options) * Oversample, MaxSignatures))
    /\ i' = 0
    /\ pc' = "loop"
    /\ UNCHANGED <<other, network, rpcCalls, sent, impl, heliusApiKey, options, chain, arg, entries,
                   batchSize, before, txs, inflight, result, listCalls,
                   heliusCalls, heliusOutcome, fetched>>

\* the listing rejects: nothing catches it, query rejects
ListFail ==
    /\ pc = "list" /\ impl = "M"
    /\ Reject("getSignaturesForAddress")
    /\ UNCHANGED <<other, network, rpcCalls, sent, impl, heliusApiKey, options, chain, arg, entries,
                   signatures, i, batchSize, before, txs, inflight, listCalls,
                   heliusCalls, heliusOutcome, fetched>>

\* one pass of the for loop up to the fetch (or to continue / break)
LoopStep ==
    /\ pc = "loop" /\ impl = "M"
    /\ IF i >= Len(signatures) \/ CapReached(entries, LimitOf(options))
       THEN Return(entries) /\ UNCHANGED <<i, fetched>>
       ELSE LET sigInfo == signatures[i + 1]
            IN IF sigInfo.err
                  \/ ~BlockTimePasses(BlockTimeOrZero(sigInfo), options)
               THEN i' = i + 1 /\ UNCHANGED <<pc, result, fetched>>
               ELSE /\ pc' = "fetch"
                    /\ fetched' =
                          [fetched EXCEPT ![sigInfo.signature] = @ + 1]
                    /\ UNCHANGED <<i, result>>
    /\ UNCHANGED <<other, network, rpcCalls, sent, impl, heliusApiKey, options, chain, arg, entries,
                   signatures, batchSize, before, txs, inflight, listCalls,
                   heliusCalls, heliusOutcome>>

\* the candidate's entry is put before the entries collected so far
AfterFetchOldestFirst(es, sigInfo, opts) ==
    LET memo == extractMemoFromParsedTx(ParsedTx(sigInfo.signature))
    IN IF FetchRejects(sigInfo.signature) THEN es
       ELSE IF memo = JNull THEN es
       ELSE IF ~matchesMemoFilters(memo, opts) THEN es
       ELSE <<MkEntry(sigInfo, memo)>> \o es

\* The entries after the candidate's fetch settled (standard path): a
\* rejection is caught, an absent or non-matching memo is skipped.
AfterFetch(es, sigInfo, opts) ==
    LET memo == extractMemoFromParsedTx(ParsedTx(sigInfo.signature))
    IN IF FetchRejects(sigInfo.signature) THEN es
       ELSE IF memo = JNull THEN es
       ELSE IF ~matchesMemoFilters(memo, opts) THEN es
       ELSE Append(es, MkEntry(sigInfo, memo))

FetchReturn ==
    /\ pc = "fetch" /\ impl = "M"
    /\ entries' = AfterFetch(entries, signatures[i + 1], options)
    /\ i' = i + 1
    /\ pc' = "loop"
    /\ UNCHANGED <<other, network, rpcCalls, sent, impl, heliusApiKey, options, chain, arg, signatures,
                   batchSize, before, txs, inflight, result, listCalls,
                   heliusCalls, heliusOutcome, fetched>>

\* ------------------------------------- implementation M: queryViaHelius
\* while (entries.length < limit): the next page is requested, or the loop
\* ends and the entries are returned
HeliusLoop ==
    /\ pc = "h_loop" /\ impl = "M"
    /\ IF ~CapReached(entries, LimitOf(options))
       THEN /\ batchSize' =
                 Min(HeliusPageMax,
                     (LimitOf(options) - Len(entries)) * HeliusOversample)
            /\ heliusCalls' = heliusCalls + 1
            /\ pc' = "h_req"
            /\ UNCHANGED result
       ELSE Return(entries) /\ UNCHANGED <<batchSize, heliusCalls>>
    /\ UNCHANGED <<other, network, rpcCalls, sent, impl, heliusApiKey, options, chain, arg, entries,
                   signatures, i, before, txs, inflight, listCalls,
                   heliusOutcome, fetched>>

\* How a listing request to Helius can end: a page, a rejected fetch, a body
\* that is no JSON, or a JSON-RPC error object without a result
HeliusOutcomes == {"ok", "reject", "malformed", "rpcerror"}

\* The request settles. fetch() or response.json() throwing leaves
\* queryViaHelius (nothing catches it); a missing or empty result breaks out
\* of the loop.
HeliusResponse ==
    /\ pc = "h_req" /\ impl = "M"
    /\ \E outcome \in HeliusOutcomes :
          /\ heliusOutcome' = outcome
          /\ IF outcome \in {"reject", "malformed"}
             THEN Reject("fetch") /\ UNCHANGED <<signatures, before, i>>
             ELSE LET batch == IF outcome = "ok"
                               THEN ListSignatures(before, batchSize)
                               ELSE <<>>
                  IN IF outcome = "rpcerror" \/ Len(batch) = 0
                     THEN Return(entries) /\ UNCHANGED <<signatures, before, i>>
                     ELSE /\ signatures' = batch
                          /\ before' = <<batch[Len(batch)].signature>>
                          /\ i' = 0
                          /\ pc' = "h_chunk"
                          /\ UNCHANGED result
    /\ UNCHANGED <<other, network, rpcCalls, sent, impl, heliusApiKey, options, chain, arg, entries,
                   batchSize, txs, inflight, listCalls, heliusCalls, fetched>>

\* batch.slice(i)
ChunkToEnd(batch, from) == [j \in 1..(Len(batch) - from) |-> batch[from + j]]

\* batch.slice(i, i + CONCURRENCY)
Chunk(batch, from) ==
    [j \in 1..Min(CONCURRENCY, Len(batch) - from) |-> batch[from + j]]

\* Head of the chunk loop: the fetches of the next chunk start together
\* (a failed transaction resolves to null without a fetch); after the last
\* chunk a short page ends the paging.
ChunkStart ==
    /\ pc = "h_chunk" /\ impl = "M"
    /\ IF i < Len(signatures) /\ ~CapReached(entries, LimitOf(options))
       THEN LET chunk == Chunk(signatures, i)
                live == {j \in 1..Len(chunk) : ~chunk[j].err}
            IN /\ txs' = [j \in 1..Len(chunk) |-> JNull]
               /\ inflight' = live
               /\ fetched' =
                     [s \in DOMAIN fetched |->
                        IF \E j \in live : chunk[j].signature = s
                        THEN fetched[s] + 1 ELSE fetched[s]]
               /\ pc' = "h_wait"
               /\ UNCHANGED result
       ELSE /\ IF Len(signatures) < batchSize
               THEN Return(entries)
               ELSE pc' = "h_loop" /\ UNCHANGED result
            /\ UNCHANGED <<txs, inflight, fetched>>
    /\ UNCHANGED <<other, network, rpcCalls, sent, impl, heliusApiKey, options, chain, arg, entries,
                   signatures, i, batchSize, before, listCalls, heliusCalls,
                   heliusOutcome>>

\* One fetch of the chunk settles. Promise.all rejects with the first
\* rejection, and the await throws out of queryViaHelius.
FetchSettle ==
    /\ pc = "h_wait" /\ impl = "M"
    /\ \E j \in inflight :
          LET sig == Chunk(signatures, i)[j].signature
          IN /\ inflight' = inflight \ {j}
             /\ IF FetchRejects(sig)
                THEN Reject("getParsedTransaction") /\ UNCHANGED txs
                ELSE /\ txs' = [txs EXCEPT ![j] = ParsedTx(sig)]
                     /\ UNCHANGED <<pc, result>>
    /\ UNCHANGED <<other, network, rpcCalls, sent, impl, heliusApiKey, options, chain, arg, entries,
                   signatures, i, batchSize, before, listCalls, heliusCalls,
                   heliusOutcome, fetched>>

\* the chunk loop without the block-time test
RECURSIVE ProcessChunkNoWindow(_, _, _, _, _)
ProcessChunkNoWindow(chunk, results, es, opts, j) ==
    IF j > Len(chunk) \/ CapReached(es, LimitOf(opts)) THEN es
    ELSE LET sigInfo == chunk[j]
             tx == results[j]
             memo == extractMemoFromParsedTx(tx)
             keep == /\ tx # JNull
                     /\ memo # JNull
                     /\ matchesMemoFilters(memo, opts)
         IN ProcessChunkNoWindow(chunk, results,
                         IF keep THEN Append(es, MkEntry(sigInfo, memo)) ELSE es,
                         opts, j + 1)

\* The inner for loop over a settled chunk (synchronous)
RECURSIVE ProcessChunk(_, _, _, _, _)
ProcessChunk(chunk, results, es, opts, j) ==
    IF j > Len(chunk) \/ CapReached(es, LimitOf(opts)) THEN es
    ELSE LET sigInfo == chunk[j]
             tx == results[j]
             memo == extractMemoFromParsedTx(tx)
             keep == /\ tx # JNull
                     /\ BlockTimePasses(BlockTimeOrZero(sigInfo), opts)
                     /\ memo # JNull
                     /\ matchesMemoFilters(memo, opts)
         IN ProcessChunk(chunk, results,
                         IF keep THEN Append(es, MkEntry(sigInfo, memo)) ELSE es,
                         opts, j + 1)

\* Promise.all resolved: the chunk is processed and the chunk loop goes on
ChunkProcess ==
    /\ pc = "h_wait" /\ impl = "M"
    /\ inflight = {}
    /\ entries' = ProcessChunk(Chunk(signatures, i), txs, entries, options, 1)
    /\ i' = i + CONCURRENCY
    /\ pc' = "h_chunk"
    /\ UNCHANGED <<other, network, rpcCalls, sent, impl, heliusApiKey, options, chain, arg, signatures,
                   batchSize, before, txs, inflight, result, listCalls,
                   heliusCalls, heliusOutcome, fetched>>

\* ------------------------------------------------ enumerated inputs of M
Times == 0..MaxTime
EmptyOptions == [k \in {} |-> 0]

\* S, and S with field k set to each value of V
Ext(S, k, V) == S \cup {o @@ (k :> v) : o \in S, v \in V}

\* a record of implementation M as log writes it
MemoPayload(agent, action, ts) ==
    Obj([v |-> Str("1"), agent |-> Str(agent), action |-> Str(action),
         ts |-> Num(ts)])

\* a record of implementation A as its log writes it
AgentMemoPayload(agent, actionType) ==
    Obj([v |-> Num(1), agent |-> Str(agent),
         action |-> Obj([actionId |-> Str("id"), actionType |-> Str(actionType),
                         description |-> Str("d"),
                         timestamp |-> Str("2025-01-01T00:00:00.000Z")])])

MemoTx(blockTime, payload) ==
    Tx(blockTime, FALSE, "ok", <<ParsedMemoIx(JsonText(payload))>>, <<>>)

PoolM ==
    { MemoTx(Num(1), MemoPayload("a1", "x", 1)),
      MemoTx(JNull, MemoPayload("a1", "x", MaxTime)),
      MemoTx(Num(MaxTime), MemoPayload("a2", "y", 1)),
      MemoTx(Num(0), MemoPayload("a1", "y", 0)),
      Tx(Num(1), TRUE, "ok",
         <<ParsedMemoIx(JsonText(MemoPayload("a1", "x", 1)))>>, <<>>),
      Tx(Num(1), FALSE, "reject",
         <<ParsedMemoIx(JsonText(MemoPayload("a1", "x", 1)))>>, <<>>),
      Tx(Num(1), FALSE, "null", <<>>, <<>>),
      Tx(Num(1), FALSE, "ok",
         <<OtherIx, ParsedMemoIx(NotJson("gm")),
           ParsedMemoIx(JsonText(AgentMemoPayload("a1", "x"))),
           RawMemoIx(JsonText(MemoPayload("a1", "x", 1))),
           ParsedMemoIx(JsonText(MemoPayload("a2", "y", MaxTime)))>>, <<>>) }

Seqs(S, n) == UNION {[1..m -> S] : m \in 0..n}

OptionsM ==
    Ext(Ext(Ext(Ext(Ext({EmptyOptions}, "limit", 0..MaxLimit),
                    "agentId", {"", "a1"}), "action", {"x"}),
            "after", Times), "before", Times)

LimitOptions == Ext({EmptyOptions}, "limit", 0..MaxLimit)

LongChain ==
    [k \in 1..LongLen |-> MemoTx(Num(1), MemoPayload("a1", "x", 1))]

\* Histories shorter than MaxHist with every option set, histories of
\* MaxHist with the cap alone, and one long uniform history.
InputsM ==
    ({MkChain(s) : s \in Seqs(PoolM, MaxHist - 1)} \X OptionsM)
    \cup ({MkChain(s) : s \in [1..MaxHist -> PoolM]} \X LimitOptions)
    \cup ({MkChain(LongChain)} \X {EmptyOptions})

InitM ==
    /\ impl = "M"
    /\ heliusApiKey \in BOOLEAN
    /\ \E in \in InputsM : chain = in[1] /\ options = in[2]
    /\ arg = 0
    /\ pc = "start"
    /\ entries = <<>>
    /\ signatures = <<>>
    /\ i = 0
    /\ batchSize = 0
    /\ before = <<>>
    /\ txs = <<>>
    /\ inflight = {}
    /\ result = [status |-> "pending"]
    /\ listCalls = 0
    /\ heliusCalls = 0
    /\ heliusOutcome = "none"
    /\ fetched = [k \in 1..Len(chain) |-> 0]
    /\ network = "devnet"
    /\ rpcCalls = 0
    /\ sent = <<>>
    /\ other = <<>>

NextM ==
    \/ Query \/ ListReturn \/ ListFail \/ LoopStep \/ FetchReturn
    \/ HeliusLoop \/ HeliusResponse \/ ChunkStart \/ FetchSettle
    \/ ChunkProcess

SpecM == InitM /\ [][NextM]_vars

\* ================================================= implementation A: pure
\* this.agentId of the instance
ThisAgentId == "a1"

\* !x of a JavaScript value
Falsy(x) ==
    \/ x.t \in {"null", "undefined"}
    \/ x = Num(0)
    \/ x = Str("")

\* a validator that looks at the agent only
isValidPayloadAgentOnly(payload) ==
    IF Falsy(payload) \/ TypeOf(payload) # "object"
    THEN FALSE
    ELSE TypeOf(Get(payload, "agent")) = "string"

\* isValidPayload (v === 1, agent a string, action a non-null object)
isValidPayload(payload) ==
    IF Falsy(payload) \/ TypeOf(payload) # "object"
    THEN FALSE
    ELSE /\ Get(payload, "v") = Num(1)
         /\ TypeOf(Get(payload, "agent")) = "string"
         /\ Get(payload, "action") # JNull
         /\ TypeOf(Get(payload, "action")) = "object"

\* LogEntry of implementation A
EntryA(signature, blockTime, slot, payload) ==
    [signature |-> signature, blockTime |-> blockTime, slot |-> slot,
     payload |-> payload, verified |-> TRUE]

\* the payload a memo instruction yields in parseTransaction, or JNull
PayloadOfIxA(ix) ==
    IF "programId" \in DOMAIN ix /\ ix.programId = MEMO_PROGRAM_ID
       /\ "parsed" \in DOMAIN ix /\ IsString(ix.parsed)
    THEN LET r == JSONParse(ix.parsed)
         IN IF r.ok /\ isValidPayload(r.val) THEN r.val ELSE JNull
    ELSE JNull

\* A log line is [memo |-> TRUE, text |-> t] when it reads
\* `Program log: Memo (len N): "t"`, any other line is [memo |-> FALSE].
PayloadOfLogA(log) ==
    IF log.memo
    THEN LET r == JSONParse(log.text)
         IN IF r.ok /\ isValidPayload(r.val) THEN r.val ELSE JNull
    ELSE JNull

RECURSIVE FirstPayloadA(_, _)
FirstPayloadA(ixs, logs) ==
    IF ixs # <<>>
    THEN IF PayloadOfIxA(Head(ixs)) # JNull THEN PayloadOfIxA(Head(ixs))
         ELSE FirstPayloadA(Tail(ixs), logs)
    ELSE IF logs # <<>>
    THEN IF PayloadOfLogA(Head(logs)) # JNull THEN PayloadOfLogA(Head(logs))
         ELSE FirstPayloadA(ixs, Tail(logs))
    ELSE JNull

\* parseTransaction(signature, tx): the entry, or JNull
parseTransaction(signature, tx) ==
    LET payload == FirstPayloadA(tx.instructions, tx.logMessages)
    IN IF payload = JNull THEN JNull
       ELSE EntryA(signature, Coalesce(tx.blockTime, JNull), tx.slot, payload)

\* `after && t && t < after` / `before && t && t > before`: the candidate is
\* skipped (t is a nullable number)
SkippedByTimeA(t, opts) ==
    \/ (TruthyNum(opts, "after") /\ ~Falsy(t) /\ t.n < opts.after)
    \/ (TruthyNum(opts, "before") /\ ~Falsy(t) /\ t.n > opts.before)

\* the filters of the standard loop on a parsed entry
KeptA(entry, opts) ==
    /\ ~(TruthyStr(opts, "actionType")
         /\ Get(Get(entry.payload, "action"), "actionType")
            # Str(opts.actionType))
    /\ Get(entry.payload, "agent") = Str(ThisAgentId)

\* The transaction as the Helius address-transactions endpoint lists it:
\* timestamp, slot and the instructions with their data as text.
HeliusIx(ix) ==
    IF ix.programId = MEMO_PROGRAM_ID
    THEN [programId |-> ix.programId,
          data |-> IF "parsed" \in DOMAIN ix THEN ix.parsed
                   ELSE FromBase64(ix.data)]
    ELSE [programId |-> ix.programId]

HeliusTx(tx) ==
    [signature |-> tx.signature, timestamp |-> tx.blockTime, slot |-> tx.slot,
     instructions |-> [n \in 1..Len(tx.instructions) |->
                         HeliusIx(tx.instructions[n])]]

\* Reading payload[k][k2] throws a TypeError when payload[k] is null or
\* undefined.
Throws(x) == x.t \in {"null", "undefined"}

\* One pass of the instruction loop of queryWithHelius: TRUE when the
\* instruction pushes an entry (a throw inside the try is swallowed).
PushesA(ix, opts) ==
    /\ ix.programId = MEMO_PROGRAM_ID
    /\ "data" \in DOMAIN ix
    /\ JSONParse(ix.data).ok
    /\ LET payload == JSONParse(ix.data).val
       IN /\ ~Throws(payload)
          /\ Get(payload, "v") = Num(1)
          /\ Get(payload, "agent") = Str(ThisAgentId)
          /\ TruthyStr(opts, "actionType")
             => /\ ~Throws(Get(payload, "action"))
                /\ Get(Get(payload, "action"), "actionType")
                   = Str(opts.actionType)

RECURSIVE PushAllA(_, _, _, _)
PushAllA(tx, ixs, es, opts) ==
    IF ixs = <<>> THEN es
    ELSE PushAllA(tx, Tail(ixs),
                  IF PushesA(Head(ixs), opts)
                  THEN Append(es, EntryA(tx.signature,
                                         Coalesce(tx.timestamp, JNull),
                                         tx.slot,
                                         JSONParse(Head(ixs).data).val))
                  ELSE es,
                  opts)

\* The for loop of queryWithHelius over the listed transactions
RECURSIVE HeliusEntriesA(_, _, _)
HeliusEntriesA(transactions, es, opts) ==
    IF transactions = <<>> \/ CapReached(es, LimitOf(opts)) THEN es
    ELSE LET tx == Head(transactions)
         IN HeliusEntriesA(
              Tail(transactions),
              IF SkippedByTimeA(tx.timestamp, opts) THEN es
              ELSE PushAllA(tx, tx.instructions, es, opts),
              opts)

\* ================================================ implementation A: query
\* The body of query up to its first await: with a key the Helius request
\* is sent, without one the standard listing request.
EnterQueryA ==
    IF heliusApiKey
    THEN /\ heliusCalls' = heliusCalls + 1
         /\ pc' = "ah_req"
         /\ UNCHANGED listCalls
    ELSE /\ listCalls' = listCalls + 1
         /\ pc' = "a_list"
         /\ UNCHANGED heliusCalls

QueryA ==
    /\ pc = "start" /\ impl = "A"
    /\ EnterQueryA
    /\ UNCHANGED <<other, network, rpcCalls, sent, impl, heliusApiKey, options, chain, arg, entries,
                   signatures, i, batchSize, before, txs, inflight, result,
                   heliusOutcome, fetched>>

\* The Helius request succeeds: the loop over the listed transactions runs
\* to its end and the entries are returned.
HeliusOkA ==
    /\ pc = "ah_req" /\ impl = "A"
    /\ heliusOutcome' = "ok"
    /\ LET n == Min(Min(LimitOf(options) * 2, HeliusPageMax), Len(chain))
           transactions == [k \in 1..n |-> HeliusTx(chain[k])]
       IN /\ entries' = HeliusEntriesA(transactions, <<>>, options)
          /\ Return(entries')
    /\ UNCHANGED <<other, network, rpcCalls, sent, impl, heliusApiKey, options, chain, arg, signatures, i,
                   batchSize, before, txs, inflight, listCalls, heliusCalls,
                   fetched>>

\* The Helius request fails (fetch rejects, a status that is not ok, a body
\* that is no JSON): the catch calls this.query({...options}).
HeliusFailA ==
    /\ pc = "ah_req" /\ impl = "A"
    /\ heliusCalls < MaxHeliusCalls
    /\ heliusOutcome' = "fail"
    /\ EnterQueryA
    /\ UNCHANGED <<other, network, rpcCalls, sent, impl, heliusApiKey, options, chain, arg, entries,
                   signatures, i, batchSize, before, txs, inflight, result,
                   fetched>>

ListReturnA ==
    /\ pc = "a_list" /\ impl = "A"
    /\ signatures' =
          ListSignatures(<<>>, Min(LimitOf(options) * 2, MaxSignatures))
    /\ i' = 0
    /\ pc' = "a_loop"
    /\ UNCHANGED <<other, network, rpcCalls, sent, impl, heliusApiKey, options, chain, arg, entries,
                   batchSize, before, txs, inflight, result, listCalls,
                   heliusCalls, heliusOutcome, fetched>>

\* the listing rejects: the catch of query returns []
ListFailA ==
    /\ pc = "a_list" /\ impl = "A"
    /\ Return(<<>>)
    /\ UNCHANGED <<other, network, rpcCalls, sent, impl, heliusApiKey, options, chain, arg, entries,
                   signatures, i, batchSize, before, txs, inflight, listCalls,
                   heliusCalls, heliusOutcome, fetched>>

LoopStepA ==
    /\ pc = "a_loop" /\ impl = "A"
    /\ IF i >= Len(signatures) \/ CapReached(entries, LimitOf(options))
       THEN Return(entries) /\ UNCHANGED <<i, fetched>>
       ELSE LET sig == signatures[i + 1]
            IN IF SkippedByTimeA(sig.blockTime, options)
               THEN i' = i + 1 /\ UNCHANGED <<pc, result, fetched>>
               ELSE /\ pc' = "a_fetch"
                    /\ fetched' = [fetched EXCEPT ![sig.signature] = @ + 1]
                    /\ UNCHANGED <<i, result>>
    /\ UNCHANGED <<other, network, rpcCalls, sent, impl, heliusApiKey, options, chain, arg, entries,
                   signatures, batchSize, before, txs, inflight, listCalls,
                   heliusCalls, heliusOutcome>>

\* the entries after a fetch that resolved
AfterFetchA(es, sig, opts) ==
    LET tx == ParsedTx(sig.signature)
        entry == parseTransaction(sig.signature, tx)
    IN IF tx = JNull THEN es
       ELSE IF entry = JNull THEN es
       ELSE IF ~KeptA(entry, opts) THEN es
       ELSE Append(es, entry)

\* The fetch settles. A rejection is not caught in the loop: it reaches the
\* catch of query, which returns [].
FetchReturnA ==
    /\ pc = "a_fetch" /\ impl = "A"
    /\ IF FetchRejects(signatures[i + 1].signature)
       THEN Return(<<>>) /\ UNCHANGED <<entries, i>>
       ELSE /\ entries' = AfterFetchA(entries, signatures[i + 1], options)
            /\ i' = i + 1
            /\ pc' = "a_loop"
            /\ UNCHANGED result
    /\ UNCHANGED <<other, network, rpcCalls, sent, impl, heliusApiKey, options, chain, arg, signatures,
                   batchSize, before, txs, inflight, listCalls, heliusCalls,
                   heliusOutcome, fetched>>

\* ------------------------------------------------ enumerated inputs of A
MemoTxA(blockTime, payload) ==
    Tx(blockTime, FALSE, "ok", <<ParsedMemoIx(JsonText(payload))>>, <<>>)

PoolA ==
    { MemoTxA(Num(1), AgentMemoPayload("a1", "x")),
      MemoTxA(Num(MaxTime), AgentMemoPayload("a1", "y")),
      MemoTxA(JNull, AgentMemoPayload("a1", "x")),
      MemoTxA(Num(0), AgentMemoPayload("a2", "x")),
      MemoTxA(Num(1), Obj([v |-> Num(1), agent |-> Str("a1")])),
      Tx(Num(1), FALSE, "ok",
         <<OtherIx, ParsedMemoIx(JsonText(AgentMemoPayload("a1", "x"))),
           ParsedMemoIx(JsonText(AgentMemoPayload("a1", "y")))>>, <<>>),
      Tx(Num(1), FALSE, "reject",
         <<ParsedMemoIx(JsonText(AgentMemoPayload("a1", "x")))>>, <<>>),
      Tx(Num(1), FALSE, "null", <<>>, <<>>),
      Tx(Num(1), FALSE, "ok",
         <<ParsedMemoIx(NotJson("gm")),
           RawMemoIx(JsonText(MemoPayload("a1", "x", 1)))>>,
         <<[memo |-> FALSE],
           [memo |-> TRUE, text |-> JsonText(AgentMemoPayload("a1", "x"))]>>) }

OptionsA ==
    Ext(Ext(Ext(Ext({EmptyOptions}, "limit", 0..MaxLimit),
                "actionType", {"x"}), "after", Times), "before", Times)

LongChainA ==
    [k \in 1..LongLen |-> MemoTxA(Num(1), AgentMemoPayload("a1", "x"))]

InputsA ==
    ({MkChain(s) : s \in Seqs(PoolA, MaxHist - 1)} \X OptionsA)
    \cup ({MkChain(s) : s \in [1..MaxHist -> PoolA]} \X LimitOptions)
    \cup ({MkChain(LongChainA)} \X {EmptyOptions})

InitA ==
    /\ impl = "A"
    /\ heliusApiKey \in BOOLEAN
    /\ \E in \in InputsA : chain = in[1] /\ options = in[2]
    /\ arg = 0
    /\ pc = "start"
    /\ entries = <<>>
    /\ signatures = <<>>
    /\ i = 0
    /\ batchSize = 0
    /\ before = <<>>
    /\ txs = <<>>
    /\ inflight = {}
    /\ result = [status |-> "pending"]
    /\ listCalls = 0
    /\ heliusCalls = 0
    /\ heliusOutcome = "none"
    /\ fetched = [k \in 1..Len(chain) |-> 0]
    /\ network = "devnet"
    /\ rpcCalls = 0
    /\ sent = <<>>
    /\ other = <<>>

NextA ==
    \/ QueryA \/ HeliusOkA \/ HeliusFailA \/ ListReturnA \/ ListFailA
    \/ LoopStepA \/ FetchReturnA

SpecA == InitA /\ [][NextA]_vars

\* ================================================================= verify
NotFoundM == "Transaction not found on-chain"
NoValidMemoM == "Transaction does not contain a valid AgentLedger memo payload"
RpcErrorM == "RPC error: <message>"
NotFoundA == "Transaction not found"
NoValidMemoA == "No valid AgentLedger memo found in transaction"
RpcErrorA == "<message>"

\* what the promise of an async function that ran to a return gives
Resolved(value) == [status |-> "returned", value |-> value]

UncaughtM(signature) == [status |-> "rejected", error |-> "getParsedTransaction"]

\* the catch block of verify (M)
CatchM(signature) ==
    Resolved([valid |-> FALSE, signature |-> signature, reason |-> RpcErrorM])

\* the try block of verify (M) once the fetch resolved to tx
TryM(signature, tx) ==
    LET memo == extractMemoFromParsedTx(tx)
    IN IF tx = JNull
       THEN Resolved([valid |-> FALSE, signature |-> signature,
                      reason |-> NotFoundM])
       ELSE IF memo = JNull
       THEN Resolved([valid |-> FALSE, signature |-> signature,
                      blockTime |-> Coalesce(tx.blockTime, Undefined),
                      slot |-> tx.slot, reason |-> NoValidMemoM])
       ELSE Resolved([valid |-> TRUE, signature |-> signature, memo |-> memo,
                      blockTime |-> Coalesce(tx.blockTime, Undefined),
                      slot |-> tx.slot])

\* verify(signature) of M, given how the fetch settles
verifyM(signature, rejects, tx) ==
    IF rejects THEN CatchM(signature) ELSE TryM(signature, tx)

\* the catch block of verify (A)
CatchA(signature) == Resolved([valid |-> FALSE, error |-> RpcErrorA])

\* the try block of verify (A) once the fetch resolved to tx
TryA(signature, tx) ==
    IF tx = JNull
    THEN Resolved([valid |-> FALSE, error |-> NotFoundA])
    ELSE IF parseTransaction(signature, tx) = JNull
    THEN Resolved([valid |-> FALSE, error |-> NoValidMemoA])
    ELSE Resolved([valid |-> TRUE, entry |-> parseTransaction(signature, tx)])

\* verify(signature) of A, given how the fetch settles
verifyA(signature, rejects, tx) ==
    IF rejects THEN CatchA(signature) ELSE TryA(signature, tx)

\* verify up to its await: the fetch is sent
Verify ==
    /\ pc = "v_start"
    /\ pc' = "v_fetch"
    /\ fetched' = [fetched EXCEPT ![arg] = @ + 1]
    /\ UNCHANGED <<other, network, rpcCalls, sent, impl, heliusApiKey, options, chain, arg, entries,
                   signatures, i, batchSize, before, txs, inflight, result,
                   listCalls, heliusCalls, heliusOutcome>>

\* the fetch settles and verify returns
VerifyReturn ==
    /\ pc = "v_fetch"
    /\ result' = IF impl = "M"
                 THEN verifyM(arg, FetchRejects(arg), ParsedTx(arg))
                 ELSE verifyA(arg, FetchRejects(arg), ParsedTx(arg))
    /\ pc' = "done"
    /\ UNCHANGED <<other, network, rpcCalls, sent, impl, heliusApiKey, options, chain, arg, entries,
                   signatures, i, batchSize, before, txs, inflight, listCalls,
                   heliusCalls, heliusOutcome, fetched>>

\* ------------------------------------------- enumerated inputs of verify
IxAlphabet ==
    { OtherIx,
      ParsedMemoIx(NotJson("gm")),
      ParsedMemoIx(JsonText(JNull)),
      ParsedMemoIx(JsonText(MemoPayload("a1", "x", 1))),
      ParsedMemoIx(JsonText(MemoPayload("a2", "y", MaxTime))),
      ParsedMemoIx(JsonText(Obj([v |-> Str("1"), agent |-> Str("a1"),
                                 action |-> Str("x")]))),
      ParsedMemoIx(JsonText(AgentMemoPayload("a1", "x"))),
      ParsedMemoIx(JsonText(AgentMemoPayload("a2", "y"))),
      RawMemoIx(NotJson("gm")),
      RawMemoIx(JsonText(MemoPayload("a1", "y", 0))) }

LogAlphabet ==
    { <<>>,
      <<[memo |-> FALSE]>>,
      <<[memo |-> TRUE, text |-> NotJson("gm")],
        [memo |-> TRUE, text |-> JsonText(AgentMemoPayload("a1", "y"))]>> }

PoolV ==
    { Tx(bt, FALSE, f, ixs, logs) :
        bt \in {JNull, Num(1)}, f \in {"ok", "null", "reject"},
        ixs \in Seqs(IxAlphabet, MaxIx), logs \in LogAlphabet }

\* The ledger holds one transaction (signature 1) and the caller asks about
\* it or about a signature the ledger has never seen (2).
InitV ==
    /\ impl \in {"M", "A"}
    /\ heliusApiKey = FALSE
    /\ options = EmptyOptions
    /\ \E tx \in PoolV : chain = MkChain(<<tx>>)
    /\ arg \in 1..2
    /\ pc = "v_start"
    /\ entries = <<>>
    /\ signatures = <<>>
    /\ i = 0
    /\ batchSize = 0
    /\ before = <<>>
    /\ txs = <<>>
    /\ inflight = {}
    /\ result = [status |-> "pending"]
    /\ listCalls = 0
    /\ heliusCalls = 0
    /\ heliusOutcome = "none"
    /\ fetched = [k \in 1..2 |-> 0]
    /\ network = "devnet"
    /\ rpcCalls = 0
    /\ sent = <<>>
    /\ other = <<>>

NextV == Verify \/ VerifyReturn

SpecV == InitV /\ [][NextV]_vars

\* ======================================================= claims on query (M)
Returned == pc = "done" /\ result.status = "returned"

\* the signatures of the entries the call returned
ResultSigs == {result.value[n].signature : n \in 1..Len(result.value)}

\* C1: in implementation M, on both paths, query never holds or returns more
\* than options.limit entries (50 when limit is not supplied).
C1_QueryCap ==
    /\ Len(entries) <= LimitOf(options)
    /\ Returned => Len(result.value) <= LimitOf(options)

\* C1 witness: the Helius path returns exactly the default cap of 50 entries
\* while a further matching candidate of the page was left unread.
C1_Witness ==
    /\ Returned /\ heliusApiKey
    /\ "limit" \notin DOMAIN options
    /\ Len(result.value) = DefaultLimit
    /\ i < Len(signatures)

\* The filters as the claim reads them: a supplied filter must be met.
MeetsSupplied(memo, opts) ==
    /\ "agentId" \in DOMAIN opts => Get(memo, "agent") = Str(opts.agentId)
    /\ "action" \in DOMAIN opts => Get(memo, "action") = Str(opts.action)
    /\ "after" \in DOMAIN opts => Get(memo, "ts").n >= opts.after
    /\ "before" \in DOMAIN opts => Get(memo, "ts").n <= opts.before

\* C3: every entry query collects satisfies every supplied filter
\* (agentId, action, after <= ts, ts <= before).
C3_AllFiltersMet ==
    \A n \in 1..Len(entries) : MeetsSupplied(entries[n].memo, options)

\* the record time lies in the supplied window
InWindow(memo, opts) ==
    /\ "after" \in DOMAIN opts => Get(memo, "ts").n >= opts.after
    /\ "before" \in DOMAIN opts => Get(memo, "ts").n <= opts.before

\* the agent and action filters, where supplied, are met
MeetsAgentAction(memo, opts) ==
    /\ "agentId" \in DOMAIN opts => Get(memo, "agent") = Str(opts.agentId)
    /\ "action" \in DOMAIN opts => Get(memo, "action") = Str(opts.action)

\* C4: the time window is decided by the record's own time, whatever the
\* block time is. A fetched transaction that carries a valid record meeting
\* the agent and action filters, with its record time in the window, is
\* returned when the call ends below the cap.
C4_RecordTimeWindow ==
    (Returned /\ Len(result.value) < LimitOf(options)) =>
      \A k \in 1..Len(chain) :
        LET memo == extractMemoFromParsedTx(ParsedTx(k))
        IN (/\ fetched[k] > 0
            /\ memo # JNull
            /\ MeetsAgentAction(memo, options)
            /\ InWindow(memo, options))
           => k \in ResultSigs

\* C6: a failed Helius listing request ends in a rejected call or in one
\* standard listing request; it is never a successfully returned result.
C6_HeliusFailureSurfaces ==
    (pc = "done" /\ heliusOutcome \in {"reject", "malformed", "rpcerror"})
    => (result.status = "rejected" \/ listCalls = 1)

\* C7: a candidate whose detail fetch fails or whose memo does not decode is
\* skipped: it is fetched once, the call does not reject because of it, and
\* (the cap not reached) every candidate of the walked listing that is
\* error-free, passes the block-time filter and carries a valid matching
\* record is returned.
C7_CandidateFailureSkipped ==
    /\ \A k \in 1..Len(chain) : fetched[k] <= 1
    /\ (pc = "done" /\ result.status = "rejected")
       => result.error # "getParsedTransaction"
    /\ (Returned /\ Len(result.value) < LimitOf(options)
        /\ heliusOutcome \in {"none", "ok"})
       => \A k \in 1..Len(chain) :
            LET memo == extractMemoFromParsedTx(ParsedTx(k))
            IN (/\ ~chain[k].err
                /\ k <= LimitOf(options) * Oversample
                /\ BlockTimePasses(BlockTimeOrZero(chain[k]), options)
                /\ memo # JNull
                /\ matchesMemoFilters(memo, options))
               => k \in ResultSigs

\* ======================================================= claims on query (A)
\* C2: in implementation A, on both paths, query returns at most
\* options.limit entries (50 when limit is not supplied), also when a
\* transaction carries several memo instructions.
C2_QueryCapA == Returned => Len(result.value) <= LimitOf(options)

\* C5: after a failed Helius request the call does not send another Helius
\* request, and it ends having sent exactly one standard listing request.
C5_FallbackOnce ==
    heliusOutcome = "fail"
    => /\ heliusCalls <= 1
       /\ pc = "done" => listCalls = 1

\* C8: on the standard path the entries collected so far are part of what
\* the call returns, also when a later detail fetch fails.
C8_FetchFailureKeepsEntries ==
    (Returned /\ ~heliusApiKey)
    => \A n \in 1..Len(entries) :
         \E m \in 1..Len(result.value) : result.value[m] = entries[n]

\* ========================================================= claims on verify
\* the memo text an instruction carries, for the instructions of the memo
\* program (parsed by the node or left in base64)
IsMemoIx(ix) ==
    \/ ("parsed" \in DOMAIN ix /\ ix.program = "spl-memo")
    \/ (ix.programId = MEMO_PROGRAM_ID /\ "data" \in DOMAIN ix)

MemoTextOf(ix) ==
    IF "parsed" \in DOMAIN ix THEN ix.parsed ELSE FromBase64(ix.data)

\* positions of the memo instructions whose text is JSON and a valid record
ValidMemoPositions(ixs) ==
    {n \in 1..Len(ixs) :
        /\ IsMemoIx(ixs[n])
        /\ JSONParse(MemoTextOf(ixs[n])).ok
        /\ isValidMemoPayload(JSONParse(MemoTextOf(ixs[n])).val)}

Least(S) == CHOOSE n \in S : \A m \in S : n <= m

\* the fetch of verify resolved to a transaction / resolved to null
Existing == arg \in 1..Len(chain) /\ chain[arg].fetch = "ok"
Missing == ~Existing /\ ~FetchRejects(arg)

\* the reason (M) or error (A) of a verify result, "" when it has none
ReasonOf(r) ==
    IF "reason" \in DOMAIN r THEN r.reason
    ELSE IF "error" \in DOMAIN r THEN r.error
    ELSE ""

NotFoundReason == IF impl = "M" THEN NotFoundM ELSE NotFoundA
NoValidMemoReason == IF impl = "M" THEN NoValidMemoM ELSE NoValidMemoA

\* the transaction holds a record the implementation's verify accepts
HoldsValidRecord ==
    IF impl = "M"
    THEN ValidMemoPositions(chain[arg].instructions) # {}
    ELSE parseTransaction(arg, ParsedTx(arg)) # JNull

\* C9: verify never rejects, in both implementations. A transaction the
\* ledger does not have gives valid = false with the not-found reason, an
\* existing one without a valid record gives valid = false with the
\* no-valid-memo reason, the two reasons differ, and neither is given in
\* the other case.
C9_VerifyReasons ==
    pc = "done" =>
      /\ result.status = "returned"
      /\ NotFoundReason # NoValidMemoReason
      /\ Missing => (/\ ~result.value.valid
                     /\ ReasonOf(result.value) = NotFoundReason)
      /\ (Existing /\ ~HoldsValidRecord)
         => (/\ ~result.value.valid
             /\ ReasonOf(result.value) = NoValidMemoReason)
      /\ ReasonOf(result.value) = NotFoundReason => Missing
      /\ ReasonOf(result.value) = NoValidMemoReason => Existing

\* C9 witness: verify of a signature the ledger has never seen returned
\* valid = false with the not-found reason.
C9_Witness ==
    /\ pc = "done" /\ arg = 2
    /\ result.status = "returned"
    /\ ~result.value.valid
    /\ ReasonOf(result.value) = NotFoundReason

\* C10: verify of M returns valid = true exactly when the fetched
\* transaction has a memo instruction whose text is JSON and passes the
\* validator; the memo is then the record of the first such instruction,
\* with the transaction's blockTime and slot; the result has a memo field
\* exactly when valid is true.
C10_VerifyFirstValidMemo ==
    (pc = "done" /\ impl = "M") =>
      LET r == result.value
          ixs == chain[arg].instructions
      IN /\ r.valid <=> (Existing /\ ValidMemoPositions(ixs) # {})
         /\ ("memo" \in DOMAIN r) <=> r.valid
         /\ r.valid =>
              /\ r.memo =
                   JSONParse(MemoTextOf(ixs[Least(ValidMemoPositions(ixs))])).val
              /\ r.blockTime = Coalesce(chain[arg].blockTime, Undefined)
              /\ r.slot = chain[arg].slot

\* C10 witness: verify returned valid = true with the record of the second
\* instruction, the first being a memo that is not a valid record.
C10_Witness ==
    /\ pc = "done" /\ impl = "M" /\ Existing
    /\ result.value.valid
    /\ IsMemoIx(chain[arg].instructions[1])
    /\ Least(ValidMemoPositions(chain[arg].instructions)) = 2

\* ======================================================= the record validator
\* The state of an instance on which no query is running
NoQuery ==
    /\ options = EmptyOptions
    /\ entries = <<>>
    /\ signatures = <<>>
    /\ i = 0
    /\ batchSize = 0
    /\ before = <<>>
    /\ txs = <<>>
    /\ inflight = {}
    /\ listCalls = 0
    /\ heliusCalls = 0
    /\ heliusOutcome = "none"

\* isValidMemoPayload (M) or isValidPayload (A) applied to a decoded value
Validate ==
    /\ pc = "p_start"
    /\ result' = Resolved(IF impl = "M" THEN isValidMemoPayload(arg)
                          ELSE isValidPayload(arg))
    /\ pc' = "done"
    /\ UNCHANGED <<other, network, rpcCalls, sent, impl, heliusApiKey, options, chain, arg,
                   entries, signatures, i, batchSize, before, txs, inflight,
                   listCalls, heliusCalls, heliusOutcome, fetched>>

\* Decoded values: every combination of an absent, a well-typed and an
\* ill-typed version, agent, action and time, and values that are no mapping.
Candidates ==
    LET vs == Ext({EmptyOptions}, "v", {Str("1"), Num(1), Str("2")})
        as == Ext(vs, "agent", {Str(""), Str("a1"), Num(1)})
        cs == Ext(as, "action",
                  {Str("x"), JNull, Obj(EmptyOptions),
                   Obj([actionType |-> Str("x")]),
                   Obj([actionType |-> Num(1)])})
        ts == Ext(cs, "ts", {Num(1)})
    IN {Obj(f) : f \in ts} \cup {JNull, Undefined, Str("x"), Num(0)}

InitP ==
    /\ impl \in {"M", "A"}
    /\ heliusApiKey = FALSE
    /\ NoQuery
    /\ chain = <<>>
    /\ arg \in Candidates
    /\ pc = "p_start"
    /\ result = [status |-> "pending"]
    /\ fetched = <<>>
    /\ network = "devnet"
    /\ rpcCalls = 0
    /\ sent = <<>>
    /\ other = <<>>

NextP == Validate

SpecP == InitP /\ [][NextP]_vars

\* ------------------------------------------------- claims on the validator
\* the version tag the implementation supports
SupportedVersion == IF impl = "M" THEN Str("1") ELSE Num(1)

\* the action type of a candidate: `action` (M) or `action.actionType` (A)
ActionTypeOf(c) ==
    IF impl = "M" THEN Get(c, "action")
    ELSE IF Get(c, "action").t = "object"
    THEN Get(Get(c, "action"), "actionType")
    ELSE Undefined

\* C11: the validator returns true only for a mapping whose version is the
\* supported one, whose agent identifier is a non-empty string and whose
\* action type is present and a string.
C11_ValidatorStrict ==
    (pc = "done" /\ result.value = TRUE)
    => /\ arg.t = "object"
       /\ Get(arg, "v") = SupportedVersion
       /\ Get(arg, "agent").t = "string"
       /\ Get(arg, "agent") # Str("")
       /\ ActionTypeOf(arg).t = "string"

\* ==================================================================== log
MemoLimitM == 566    \* Buffer.byteLength(memoText, "utf8") > 566
MemoLimitA == 900    \* memoData.length > 900

\* Number.NaN
NaN == [t |-> "number", nan |-> TRUE]

\* A string of n ASCII characters and m characters of the Basic Multilingual
\* Plane beyond U+07FF: each of the m is one UTF-16 code unit and three
\* UTF-8 bytes.
Text(n, m) == [t |-> "string", ascii |-> n, wide |-> m]

\* The size of a string, a wide character counting `wide`: 1 gives
\* String.length, 3 gives Buffer.byteLength(s, "utf8").
StrSize(x, wide) ==
    IF "s" \in DOMAIN x THEN Len(x.s) ELSE x.ascii + wide * x.wide

\* decimal digits of a small natural number
Digits(n) == IF n < 10 THEN 1 ELSE IF n < 100 THEN 2 ELSE IF n < 1000 THEN 3 ELSE 4

\* JSON.stringify, by the value JSON.parse reads back from its text: a key
\* whose value is undefined is left out, NaN is written as null.
RECURSIVE Stringify(_)
Stringify(v) ==
    IF v.t = "object"
    THEN Obj([k \in {k \in DOMAIN v.o : v.o[k] # Undefined} |->
                Stringify(v.o[k])])
    ELSE IF v = NaN THEN JNull
    ELSE v

\* The size of the text JSON.stringify writes for a JSON value
RECURSIVE JsonSize(_, _)
RECURSIVE FieldsSize(_, _, _)
JsonSize(v, wide) ==
    CASE v.t = "string" -> 2 + StrSize(v, wide)
      [] v.t = "number" -> Digits(v.n)
      [] v.t = "null" -> 4
      [] v.t = "object" ->
           2 + FieldsSize(v.o, DOMAIN v.o, wide)
             + (IF DOMAIN v.o = {} THEN 0 ELSE Cardinality(DOMAIN v.o) - 1)

\* "key":value for every key of the set
FieldsSize(f, keys, wide) ==
    IF keys = {} THEN 0
    ELSE LET k == CHOOSE x \in keys : TRUE
         IN Len(k) + 3 + JsonSize(f[k], wide) + FieldsSize(f, keys \ {k}, wide)

\* the memo text of a payload
MemoText(payload) == JsonText(Stringify(payload))

\* Buffer.byteLength(JSON.stringify(payload), "utf8")
ByteLength(payload) == JsonSize(Stringify(payload), 3)

\* JSON.stringify(payload).length
StringLength(payload) == JsonSize(Stringify(payload), 1)

TooLargeAtCeiling(size, max) == size >= max

\* size > max
TooLarge(size, max) == size > max

\* the payload with data copied whenever it is supplied
PayloadWithAnyData(a) ==
    LET base == [v |-> Str("1"), agent |-> Str(ThisAgentId),
                 action |-> a.action, ts |-> Num(a.now \div 1000)]
    IN Obj(IF "data" \in DOMAIN a THEN base @@ [data |-> a.data] ELSE base)

\* the MemoPayload log of M builds from its arguments
PayloadM(a) ==
    LET base == [v |-> Str("1"), agent |-> Str(ThisAgentId),
                 action |-> a.action, ts |-> Num(a.now \div 1000)]
    IN Obj(IF "data" \in DOMAIN a /\ DOMAIN a.data.o # {}
           THEN base @@ [data |-> a.data]
           ELSE base)

\* the AgentMemoPayload log of A builds from its arguments
PayloadA(a) ==
    Obj([v |-> Num(1), agent |-> Str(ThisAgentId),
         action |->
            Obj([actionId |-> Text(15, 0),
                 actionType |-> a.actionType,
                 description |-> a.description,
                 metadata |-> IF "metadata" \in DOMAIN a THEN a.metadata
                              ELSE Undefined,
                 timestamp |-> Str("2025-01-01T00:00:00.000Z")])])

\* the transaction a memo text becomes on the ledger
SentTx(text) ==
    Tx(Num(1), FALSE, "ok", <<ParsedMemoIx(text)>>,
       <<[memo |-> TRUE, text |-> text]>>)

\* ---------------------------------------------------- implementation M: log
\* log up to its first await: the payload is built and measured; over the
\* ceiling the call throws, else the transaction is submitted.
LogM ==
    /\ pc = "l_start" /\ impl = "M"
    /\ IF TooLarge(ByteLength(PayloadM(arg)), MemoLimitM)
       THEN /\ Reject([message |-> "Memo payload exceeds 566-byte limit",
                       actual |-> ByteLength(PayloadM(arg)),
                       limit |-> MemoLimitM])
            /\ UNCHANGED <<rpcCalls, sent>>
       ELSE /\ sent' = Append(sent, SentTx(MemoText(PayloadM(arg))))
            /\ rpcCalls' = rpcCalls + 1
            /\ pc' = "l_send"
            /\ UNCHANGED result
    /\ UNCHANGED <<other, network, impl, heliusApiKey, options, chain, arg, entries,
                   signatures, i, batchSize, before, txs, inflight, listCalls,
                   heliusCalls, heliusOutcome, fetched>>

\* sendAndConfirmTransaction settles: confirmed, the transaction is on the
\* ledger and getTransaction is requested; a rejection leaves log uncaught.
SendSettleM ==
    /\ pc = "l_send" /\ impl = "M"
    /\ \/ /\ chain' = MkChain(<<sent[Len(sent)]>>)
          /\ rpcCalls' = rpcCalls + 1
          /\ pc' = "l_slot"
          /\ UNCHANGED result
       \/ /\ Reject([message |-> "sendAndConfirmTransaction"])
          /\ UNCHANGED <<chain, rpcCalls>>
    /\ UNCHANGED <<other, network, sent, impl, heliusApiKey, options, arg, entries,
                   signatures, i, batchSize, before, txs, inflight, listCalls,
                   heliusCalls, heliusOutcome, fetched>>

\* getTransaction settles: txInfo?.slot ?? 0, then the LogResult is returned
SlotSettleM ==
    /\ pc = "l_slot" /\ impl = "M"
    /\ \/ \E slot \in {chain[1].slot, 0} :
            Return([signature |-> chain[1].signature, slot |-> slot,
                    memo |-> PayloadM(arg)])
       \/ Reject([message |-> "getTransaction"])
    /\ UNCHANGED <<other, network, rpcCalls, sent, impl, heliusApiKey, options, chain,
                   arg, entries, signatures, i, batchSize, before, txs,
                   inflight, listCalls, heliusCalls, heliusOutcome, fetched>>

\* ---------------------------------------------------- implementation A: log
\* log up to its await: over the ceiling a failure value is returned, else
\* the transaction is submitted.
LogA ==
    /\ pc = "l_start" /\ impl = "A"
    /\ IF TooLarge(StringLength(PayloadA(arg)), MemoLimitA)
       THEN /\ Return([success |-> FALSE,
                       error |-> [message |-> "Memo too large",
                                  actual |-> StringLength(PayloadA(arg)),
                                  limit |-> MemoLimitA]])
            /\ UNCHANGED <<rpcCalls, sent>>
       ELSE /\ sent' = Append(sent, SentTx(MemoText(PayloadA(arg))))
            /\ rpcCalls' = rpcCalls + 1
            /\ pc' = "l_send"
            /\ UNCHANGED result
    /\ UNCHANGED <<other, network, impl, heliusApiKey, options, chain, arg, entries,
                   signatures, i, batchSize, before, txs, inflight, listCalls,
                   heliusCalls, heliusOutcome, fetched>>

\* sendAndConfirmTransaction settles: success, or the catch of log returns
\* the failure
SendSettleA ==
    /\ pc = "l_send" /\ impl = "A"
    /\ \/ /\ chain' = MkChain(<<sent[Len(sent)]>>)
          /\ Return([success |-> TRUE, signature |-> 1])
       \/ /\ Return([success |-> FALSE,
                     error |-> [message |-> "sendAndConfirmTransaction"]])
          /\ UNCHANGED chain
    /\ UNCHANGED <<other, network, rpcCalls, sent, impl, heliusApiKey, options, arg,
                   entries, signatures, i, batchSize, before, txs, inflight,
                   listCalls, heliusCalls, heliusOutcome, fetched>>

\* ------------------------------------------------ enumerated inputs of log
MaxFill == 800    \* most ASCII characters of the enumerated filler text
MaxWide == 1      \* most three-byte characters of the enumerated filler text

Fillers == {Text(n, m) : n \in 0..MaxFill, m \in 0..MaxWide}

\* metadata mappings: empty, a string, a number that is NaN, an undefined
\* value, a nested mapping
DataShapes ==
    { Obj(EmptyOptions), Obj([key |-> Str("value")]), Obj([n |-> NaN]),
      Obj([u |-> Undefined]), Obj([o |-> Obj([k |-> JNull])]) }

ArgsM ==
    Ext({[action |-> Str("x"), now |-> t * 1000 + 500] : t \in Times},
        "data", DataShapes)
    \cup {[action |-> Str("x"), now |-> 1500, data |-> Obj([blob |-> f])] :
            f \in Fillers}

ArgsA ==
    Ext({[actionType |-> Str("x"), description |-> Str("d")]},
        "metadata", DataShapes)
    \cup {[actionType |-> Str("x"), description |-> f,
           metadata |-> Obj([key |-> Str("value")])] : f \in Fillers}

InitL ==
    /\ impl \in {"M", "A"}
    /\ heliusApiKey = FALSE
    /\ NoQuery
    /\ chain = <<>>
    /\ arg \in (IF impl = "M" THEN ArgsM ELSE ArgsA)
    /\ pc = "l_start"
    /\ result = [status |-> "pending"]
    /\ fetched = <<>>
    /\ network = "devnet"
    /\ rpcCalls = 0
    /\ sent = <<>>
    /\ other = <<>>

NextL == LogM \/ SendSettleM \/ SlotSettleM \/ LogA \/ SendSettleA

SpecL == InitL /\ [][NextL]_vars

\* ------------------------------------------------------------ claims on log
\* the payload log builds, its ceiling and its size in UTF-8 bytes
PayloadOf(a) == IF impl = "M" THEN PayloadM(a) ELSE PayloadA(a)
CeilingOf == IF impl = "M" THEN MemoLimitM ELSE MemoLimitA
EncodedBytes == ByteLength(PayloadOf(arg))

\* the record the implementation's own decoder reads from the transaction
\* log wrote (JNull when it reads none)
Decoded ==
    IF impl = "M" THEN extractMemoFromParsedTx(ParsedTx(1))
    ELSE LET e == parseTransaction(1, ParsedTx(1))
         IN IF e = JNull THEN JNull ELSE e.payload

\* the metadata the caller passed (Undefined when none was passed) and the
\* metadata of the decoded record
RequestedMetadata ==
    IF impl = "M"
    THEN IF "data" \in DOMAIN arg THEN arg.data ELSE Undefined
    ELSE IF "metadata" \in DOMAIN arg THEN arg.metadata ELSE Undefined

DecodedMetadata ==
    IF impl = "M" THEN Get(Decoded, "data")
    ELSE Get(Get(Decoded, "action"), "metadata")

DecodedActionType ==
    IF impl = "M" THEN Get(Decoded, "action")
    ELSE Get(Get(Decoded, "action"), "actionType")

RequestedActionType == IF impl = "M" THEN arg.action ELSE arg.actionType

\* A mapping without its keys of undefined value; no mapping at all reads
\* as the empty mapping.
RECURSIVE Defined(_)
Defined(v) ==
    IF v = Undefined THEN Obj(EmptyOptions)
    ELSE IF v.t = "object"
    THEN Obj([k \in {k \in DOMAIN v.o : v.o[k] # Undefined} |->
                Defined(v.o[k])])
    ELSE v

\* C12: round trip. The record decoded from the memo text log wrote passes
\* the validator and has the agentId, the action type and the metadata log
\* was called with (an absent and an empty metadata mapping read the same,
\* and so do an absent key and a key of undefined value).
C12_RoundTrip ==
    chain # <<>> =>
      /\ Decoded # JNull
      /\ Get(Decoded, "agent") = Str(ThisAgentId)
      /\ DecodedActionType = RequestedActionType
      /\ Defined(DecodedMetadata) = Defined(RequestedMetadata)

\* the call failed with the size error
SizeError ==
    /\ pc = "done"
    /\ IF impl = "M"
       THEN result.status = "rejected" /\ "actual" \in DOMAIN result.error
       ELSE /\ result.status = "returned"
            /\ ~result.value.success
            /\ "actual" \in DOMAIN result.value.error

\* C13: log of M submits a payload of exactly 566 bytes (and every smaller
\* one), and fails for 567 bytes or more with an error that states the
\* byte count and the maximum of 566.
C13_CeilingM ==
    (impl = "M" /\ pc # "l_start") =>
      /\ EncodedBytes <= 566 => (Len(sent) = 1 /\ ~SizeError)
      /\ EncodedBytes >= 567 =>
           /\ SizeError
           /\ result.error.actual = EncodedBytes
           /\ result.error.limit = 566

\* C13 witness: a payload of exactly 566 bytes was submitted and log
\* returned its result.
C13_Witness ==
    /\ impl = "M" /\ Returned
    /\ EncodedBytes = 566
    /\ chain # <<>>

\* C14: every memo log of A submits is at most 900 bytes long in UTF-8, and
\* a payload over 900 bytes gives success = false with an error that states
\* the size and the maximum of 900.
C14_CeilingA ==
    (impl = "A" /\ pc # "l_start") =>
      /\ sent # <<>> => EncodedBytes <= 900
      /\ EncodedBytes > 900 =>
           /\ SizeError
           /\ result.value.error.actual = EncodedBytes
           /\ result.value.error.limit = 900

\* C15: when the encoded payload exceeds the ceiling, log fails with no
\* request sent and nothing submitted; what log submits is the encoding of
\* the requested payload, unaltered.
C15_FailsBeforeNetwork ==
    pc # "l_start" =>
      /\ EncodedBytes > CeilingOf =>
           /\ rpcCalls = 0
           /\ sent = <<>>
           /\ SizeError
      /\ \A n \in 1..Len(sent) :
           sent[n].instructions = <<ParsedMemoIx(MemoText(PayloadOf(arg)))>>

\* C16: log ends with a returned value, never with a rejected promise, for
\* an oversized payload and for a transport failure alike.
C16_LogReturnsFailure ==
    pc = "done" => result.status = "returned"

\* =========================== implementation M: constructor, requestAirdrop
MaxKeyLen == 65    \* longest enumerated config.privateKey

\* config.privateKey.length === 64 or === 32
KeyLengthOk(len) == len \in {32, 64}

AirdropNeverRefused(net) == FALSE

\* this.network !== "devnet"
AirdropRefused(net) == net # "devnet"

\* new AgentLedger(config): the fields are set and the connection object is
\* built (no request is sent by that); a key that is neither 32 nor 64 bytes
\* long throws, and so does a 64-byte key web3.js finds malformed.
Construct ==
    /\ pc = "new"
    /\ network' = IF "network" \in DOMAIN arg THEN arg.network ELSE "devnet"
    /\ heliusApiKey' = arg.heliusApiKey
    /\ IF ~KeyLengthOk(arg.keyLen)
       THEN /\ result' = [status |-> "thrown",
                          error |-> [message |-> "Invalid private key length",
                                     actual |-> arg.keyLen]]
            /\ pc' = "done"
       ELSE IF arg.keyLen = 64 /\ ~arg.keyWellFormed
       THEN /\ result' = [status |-> "thrown",
                          error |-> [message |-> "provided secretKey is invalid"]]
            /\ pc' = "done"
       ELSE pc' = "ready" /\ UNCHANGED result
    /\ UNCHANGED <<other, rpcCalls, sent, impl, options, chain, arg, entries,
                   signatures, i, batchSize, before, txs, inflight, listCalls,
                   heliusCalls, heliusOutcome, fetched>>

\* requestAirdrop up to its first await
RequestAirdrop ==
    /\ pc = "ready"
    /\ IF AirdropRefused(network)
       THEN /\ Reject([message |-> "Airdrop only available on devnet"])
            /\ UNCHANGED rpcCalls
       ELSE /\ rpcCalls' = rpcCalls + 1
            /\ pc' = "air_req"
            /\ UNCHANGED result
    /\ UNCHANGED <<other, network, sent, impl, heliusApiKey, options, chain, arg,
                   entries, signatures, i, batchSize, before, txs, inflight,
                   listCalls, heliusCalls, heliusOutcome, fetched>>

\* The catch block of requestAirdrop for an error whose message is msg: with
\* a Helius key and a rate-limit message the public devnet node is asked,
\* any other error is thrown on.
AirdropCatch(msg) ==
    IF heliusApiKey /\ msg = "Rate limit"
    THEN /\ rpcCalls' = rpcCalls + 1
         /\ pc' = "fb_req"
         /\ UNCHANGED result
    ELSE /\ Reject([message |-> msg])
         /\ UNCHANGED rpcCalls

\* connection.requestAirdrop settles
AirdropSettle ==
    /\ pc = "air_req"
    /\ \/ /\ rpcCalls' = rpcCalls + 1
          /\ pc' = "air_conf"
          /\ UNCHANGED result
       \/ \E msg \in {"Rate limit", "other"} : AirdropCatch(msg)
    /\ UNCHANGED <<other, network, sent, impl, heliusApiKey, options, chain, arg,
                   entries, signatures, i, batchSize, before, txs, inflight,
                   listCalls, heliusCalls, heliusOutcome, fetched>>

\* connection.confirmTransaction settles
ConfirmSettle ==
    /\ pc = "air_conf"
    /\ \/ Return("sig") /\ UNCHANGED rpcCalls
       \/ \E msg \in {"Rate limit", "other"} : AirdropCatch(msg)
    /\ UNCHANGED <<other, network, sent, impl, heliusApiKey, options, chain, arg,
                   entries, signatures, i, batchSize, before, txs, inflight,
                   listCalls, heliusCalls, heliusOutcome, fetched>>

\* fallback.requestAirdrop settles (inside the catch: a failure is thrown)
FallbackSettle ==
    /\ pc = "fb_req"
    /\ \/ /\ rpcCalls' = rpcCalls + 1
          /\ pc' = "fb_conf"
          /\ UNCHANGED result
       \/ Reject([message |-> "other"]) /\ UNCHANGED rpcCalls
    /\ UNCHANGED <<other, network, sent, impl, heliusApiKey, options, chain, arg,
                   entries, signatures, i, batchSize, before, txs, inflight,
                   listCalls, heliusCalls, heliusOutcome, fetched>>

\* fallback.confirmTransaction settles
FallbackConfirmSettle ==
    /\ pc = "fb_conf"
    /\ \/ Return("sig")
       \/ Reject([message |-> "other"])
    /\ UNCHANGED <<other, network, rpcCalls, sent, impl, heliusApiKey, options, chain,
                   arg, entries, signatures, i, batchSize, before, txs,
                   inflight, listCalls, heliusCalls, heliusOutcome, fetched>>

\* configurations: every key length up to MaxKeyLen, a network or none,
\* with and without a Helius key
Configs ==
    Ext({[keyLen |-> n, keyWellFormed |-> w, heliusApiKey |-> h] :
           n \in 0..MaxKeyLen, w \in BOOLEAN, h \in BOOLEAN},
        "network", {"devnet", "mainnet-beta"})

InitC ==
    /\ impl = "M"
    /\ heliusApiKey = FALSE
    /\ NoQuery
    /\ chain = <<>>
    /\ arg \in Configs
    /\ pc = "new"
    /\ result = [status |-> "pending"]
    /\ fetched = <<>>
    /\ network = "unset"
    /\ rpcCalls = 0
    /\ sent = <<>>
    /\ other = <<>>

NextC ==
    \/ Construct \/ RequestAirdrop \/ AirdropSettle \/ ConfirmSettle
    \/ FallbackSettle \/ FallbackConfirmSettle

SpecC == InitC /\ [][NextC]_vars

\* C17: configuration misuse fails before any network call. The constructor
\* throws for every private key whose length is neither 32 nor 64 bytes, and
\* requestAirdrop on an instance whose network is not devnet rejects; in
\* both cases no request has been sent.
C17_MisuseFailsFast ==
    pc # "new" =>
      /\ arg.keyLen \notin {32, 64} =>
           /\ pc = "done" /\ result.status = "thrown"
           /\ rpcCalls = 0
      /\ network # "devnet" =>
           /\ rpcCalls = 0
           /\ pc \in {"ready", "done"}
           /\ pc = "done" => result.status \in {"thrown", "rejected"}

\* C17 witness: requestAirdrop of a well-constructed mainnet-beta instance
\* rejected with the devnet-only error and no request was sent.
C17_Witness ==
    /\ pc = "done" /\ network = "mainnet-beta"
    /\ KeyLengthOk(arg.keyLen)
    /\ result.status = "rejected"
    /\ result.error.message = "Airdrop only available on devnet"
    /\ rpcCalls = 0

\* ============================================ claims on query (M), continued
\* Candidate k of the history matches: it is error-free, passes the
\* block-time filter, its detail is fetched, and it carries a valid record
\* that passes the filters.
Matching(k) ==
    LET memo == extractMemoFromParsedTx(ParsedTx(k))
    IN /\ ~chain[k].err
       /\ BlockTimePasses(BlockTimeOrZero(chain[k]), options)
       /\ memo # JNull
       /\ matchesMemoFilters(memo, options)

\* the candidates the call lists: one listing of limit * 4 (at most 1000) on
\* the standard path, page after page on the Helius path
Listed ==
    IF heliusApiKey THEN 1..Len(chain)
    ELSE 1..Min(Len(chain), Min(LimitOf(options) * Oversample, MaxSignatures))

MatchingListed == {k \in Listed : Matching(k)}

\* C18: query returns the first `limit` matching candidates of the listing,
\* in listing order (newest first), on both paths, when no request failed.
C18_NewestFirst ==
    (Returned /\ heliusOutcome \in {"none", "ok"}) =>
      LET r == result.value
      IN /\ \A n \in 1..Len(r) - 1 : r[n].signature < r[n + 1].signature
         /\ ResultSigs \subseteq MatchingListed
         /\ Len(r) = Min(LimitOf(options), Cardinality(MatchingListed))
         /\ \A k \in MatchingListed \ ResultSigs :
              \A j \in ResultSigs : j < k

\* C18 witness: with limit = 2 and three matching candidates the two newest
\* are returned.
C18_Witness ==
    /\ Returned /\ heliusOutcome \in {"none", "ok"}
    /\ LimitOf(options) = 2
    /\ Cardinality(MatchingListed) = 3
    /\ ResultSigs = {1, 2}

\* C19: at most CONCURRENCY (10) detail fetches are in flight on the Helius
\* path, none is in flight when the next chunk is about to start, and the
\* standard path has one fetch in flight while it awaits and none otherwise.
C19_BoundedFanOut ==
    /\ Cardinality(inflight) <= 10
    /\ pc \in {"h_chunk", "h_loop", "h_req"} => inflight = {}
    /\ ~heliusApiKey =>
         /\ inflight = {}
         /\ \A k \in 1..Len(chain) :
              fetched[k] <= 1
              /\ (fetched[k] = 1 /\ pc = "fetch") => k <= i + 1

\* C19 witness: a second chunk of ten fetches is in flight on the Helius
\* path.
C19_Witness ==
    /\ heliusApiKey /\ pc = "h_wait"
    /\ i >= CONCURRENCY
    /\ Cardinality(inflight) = 10

\* ------------------------------------- the Helius path of query (M), alone
InitH == InitM /\ heliusApiKey

NextH ==
    \/ Query \/ HeliusLoop \/ HeliusResponse \/ ChunkStart \/ FetchSettle
    \/ ChunkProcess

\* Every request settles and every synchronous stretch runs on.
SpecH == InitH /\ [][NextH]_vars /\ WF_vars(NextH)

\* The paging loop as the claim reads it, in every state:
\*   the first page is requested without a cursor, every later one with the
\*   last signature of the page before it, which was a full page;
\*   no signature is listed (and so fetched) twice;
\*   a page is requested only below the cap;
\*   a call whose requests succeeded ends with the cap reached, an empty
\*   page or a page shorter than requested.
PagingInv ==
    /\ pc = "h_req" =>
         /\ ~CapReached(entries, LimitOf(options))
         /\ heliusCalls = 1 => before = <<>>
         /\ heliusCalls > 1 =>
              before = <<signatures[Len(signatures)].signature>>
    /\ (pc = "h_loop" /\ heliusCalls > 0) =>
         (Len(signatures) > 0 /\ Len(signatures) = batchSize)
    /\ \A k \in 1..Len(chain) : fetched[k] <= 1
    /\ (Returned /\ heliusOutcome \in {"none", "ok"}) =>
         \/ CapReached(entries, LimitOf(options))
         \/ ListSignatures(before, batchSize) = <<>>
         \/ Len(signatures) < batchSize

\* C20: the Helius paging loop asks for each page after the first with the
\* cursor at the last signature of the previous page, stops exactly when the
\* cap is reached, a page is empty or a page is short, and terminates for
\* every finite history.
C20_PagingTerminates == []PagingInv /\ <>(pc = "done")

\* C20 witness: a second page was requested with the cursor at the last
\* signature of a full first page, and the call has ended.
C20_Witness ==
    /\ pc = "done" /\ Returned
    /\ heliusCalls > 1
    /\ heliusOutcome = "ok"

\* ======================================= two calls on one instance (M)
\* The locals of the running call: its arguments, its position and what it
\* has collected. Everything else is the instance or the ledger.
Locals ==
    [options |-> options, arg |-> arg, pc |-> pc, entries |-> entries,
     signatures |-> signatures, i |-> i, batchSize |-> batchSize,
     before |-> before, txs |-> txs, inflight |-> inflight,
     result |-> result, heliusOutcome |-> heliusOutcome]

\* entries is not a local: both calls push to the same array
YieldSharedEntries ==
    /\ other.pc # "done"
    /\ other' = Locals
    /\ options' = other.options /\ arg' = other.arg /\ pc' = other.pc
    /\ signatures' = other.signatures
    /\ i' = other.i /\ batchSize' = other.batchSize
    /\ before' = other.before /\ txs' = other.txs
    /\ inflight' = other.inflight /\ result' = other.result
    /\ heliusOutcome' = other.heliusOutcome
    /\ UNCHANGED <<entries, network, rpcCalls, sent, impl, heliusApiKey,
                   chain, listCalls, heliusCalls, fetched>>

\* The running call is suspended at its await (or has ended) and the other
\* call runs on: the two sets of locals change places.
Yield ==
    /\ other.pc # "done"
    /\ other' = Locals
    /\ options' = other.options /\ arg' = other.arg /\ pc' = other.pc
    /\ entries' = other.entries /\ signatures' = other.signatures
    /\ i' = other.i /\ batchSize' = other.batchSize
    /\ before' = other.before /\ txs' = other.txs
    /\ inflight' = other.inflight /\ result' = other.result
    /\ heliusOutcome' = other.heliusOutcome
    /\ UNCHANGED <<network, rpcCalls, sent, impl, heliusApiKey, chain,
                   listCalls, heliusCalls, fetched>>

\* a call that has not started: query(options) or verify(signature)
QueryCall(opts) ==
    [options |-> opts, arg |-> 0, pc |-> "start", entries |-> <<>>,
     signatures |-> <<>>, i |-> 0, batchSize |-> 0, before |-> <<>>,
     txs |-> <<>>, inflight |-> {}, result |-> [status |-> "pending"],
     heliusOutcome |-> "none"]

VerifyCall(signature) ==
    [QueryCall(EmptyOptions) EXCEPT !.arg = signature, !.pc = "v_start"]

PoolI ==
    { MemoTx(Num(1), MemoPayload("a1", "x", 1)),
      MemoTx(Num(MaxTime), MemoPayload("a2", "y", 1)),
      Tx(Num(1), FALSE, "reject",
         <<ParsedMemoIx(JsonText(MemoPayload("a1", "x", 1)))>>, <<>>),
      Tx(Num(1), FALSE, "ok", <<OtherIx, ParsedMemoIx(NotJson("gm"))>>, <<>>) }

MaxHistI == 2    \* longest history of the interleaved calls

CallsI ==
    {QueryCall(o) : o \in {EmptyOptions, [limit |-> 1], [agentId |-> "a1"]}}
    \cup {VerifyCall(s) : s \in 1..(MaxHistI + 1)}

InitI ==
    /\ impl = "M"
    /\ heliusApiKey \in BOOLEAN
    /\ chain \in {MkChain(s) : s \in Seqs(PoolI, MaxHistI)}
    /\ \E c \in CallsI :
          /\ options = c.options /\ arg = c.arg /\ pc = c.pc
          /\ entries = c.entries /\ signatures = c.signatures /\ i = c.i
          /\ batchSize = c.batchSize /\ before = c.before /\ txs = c.txs
          /\ inflight = c.inflight /\ result = c.result
          /\ heliusOutcome = c.heliusOutcome
    /\ other \in CallsI
    /\ listCalls = 0
    /\ heliusCalls = 0
    /\ fetched = [k \in 1..(MaxHistI + 1) |-> 0]
    /\ network = "devnet"
    /\ rpcCalls = 0
    /\ sent = <<>>

NextI ==
    \/ Yield \/ Query \/ ListReturn \/ ListFail \/ LoopStep \/ FetchReturn
    \/ HeliusLoop \/ HeliusResponse \/ ChunkStart \/ FetchSettle
    \/ ChunkProcess \/ Verify \/ VerifyReturn

SpecI == InitI /\ [][NextI]_vars

\* The for loop of the standard path run to its end over a listing, from
\* candidate k on, as a function of the ledger.
RECURSIVE WalkListing(_, _, _, _)
WalkListing(listing, opts, k, es) ==
    IF k > Len(listing) \/ CapReached(es, LimitOf(opts)) THEN es
    ELSE LET sigInfo == listing[k]
         IN WalkListing(listing, opts, k + 1,
                IF sigInfo.err
                   \/ ~BlockTimePasses(BlockTimeOrZero(sigInfo), opts)
                THEN es
                ELSE AfterFetch(es, sigInfo, opts))

\* what query of the standard path returns when its listing resolves
StandardResult(opts) ==
    WalkListing(ListSignatures(<<>>, Min(LimitOf(opts) * Oversample,
                                         MaxSignatures)),
                opts, 1, <<>>)

\* the same walk over the whole history
WholeHistoryResult(opts) ==
    WalkListing(ListSignatures(<<>>, Len(chain)), opts, 1, <<>>)

\* A call that has ended gave what the ledger alone determines: verify the
\* value of verify for its signature, query (its requests having succeeded)
\* the walk over the listing with its own options.
Independent(c) ==
    c.pc = "done" =>
      IF c.arg # 0
      THEN c.result = verifyM(c.arg, FetchRejects(c.arg), ParsedTx(c.arg))
      ELSE (c.result.status = "returned"
            /\ c.heliusOutcome \in {"none", "ok"})
           => c.result.value = (IF heliusApiKey
                                THEN WholeHistoryResult(c.options)
                                ELSE StandardResult(c.options))

IndependentInv == Independent(Locals) /\ Independent(other)

Quota(opts) ==
    IF LimitOf(opts) * Oversample < MaxSignatures
    THEN LimitOf(opts) * Oversample
    ELSE MaxSignatures

ListedLen == IF Len(chain) < Quota(options) THEN Len(chain) ELSE Quota(options)

\* M of the claim: the listed candidates that are error-free, inside the
\* block-time window and carry a valid record matching the memo filters
\* (window and filters as the code applies them)
MatchingStandard == {k \in 1..ListedLen : Matching(k)}

NoFetchFails ==
    /\ \A k \in 1..Len(chain) : ~FetchRejects(k)
    /\ heliusOutcome \in {"none", "ok"}

\* C26: for an address with at most min(4 * limit, 1000) signatures and
\* no failing fetch, query returns on the Helius path and on the standard
\* path the same entries in the same order: on either path the result is
\* the walk of the standard path over the ledger with the call's options.
C26_PathsAgree ==
    (Returned /\ NoFetchFails /\ Len(chain) <= Quota(options)) =>
      result.value = StandardResult(options)

\* C26 witness: the Helius path returned entries, for a history within the
\* standard listing, that the standard path returns too.
C26_Witness ==
    /\ heliusApiKey /\ Returned /\ pc = "done"
    /\ NoFetchFails /\ Len(chain) <= Quota(options)
    /\ Len(chain) > Len(result.value)
    /\ Len(result.value) > 0
    /\ result.value = StandardResult(options)

\* ====================================== claims on the validators, continued
\* C28: no decoded value is accepted by both validators, and a value the
\* validator of M accepts does not carry the version the Helius loop of A
\* asks for; so a record of one schema is never valid under the other.
C28_SchemasDisjoint ==
    /\ ~(isValidMemoPayload(arg) /\ isValidPayload(arg))
    /\ isValidMemoPayload(arg) => Get(arg, "v") # Num(1)
    /\ (pc = "done" /\ result.value)
         => ~(IF impl = "M" THEN isValidPayload(arg)
              ELSE isValidMemoPayload(arg))

\* C28 witness: the validator of M accepted a value, which the validator
\* of A refuses.
C28_Witness ==
    /\ pc = "done" /\ impl = "M"
    /\ result.value
    /\ ~isValidPayload(arg)

\* ============================================ claims on log (M), continued
\* C27: the memo log of M returns has v = "1", the configured agentId, the
\* action argument and the clock's time in whole Unix seconds; it has a
\* data field exactly when options.data has at least one key, and then that
\* mapping; the text written into the transaction is the serialization of
\* the returned memo.
C27_LogMemo ==
    (impl = "M" /\ pc = "done" /\ Returned) =>
      LET m == result.value.memo.o
      IN /\ m.v = Str("1")
         /\ m.agent = Str(ThisAgentId)
         /\ m.action = arg.action
         /\ m.ts.t = "number"
         /\ m.ts.n * 1000 <= arg.now /\ arg.now < (m.ts.n + 1) * 1000
         /\ ("data" \in DOMAIN m)
              <=> ("data" \in DOMAIN arg /\ DOMAIN arg.data.o # {})
         /\ "data" \in DOMAIN m => m.data = arg.data
         /\ Len(sent) = 1
         /\ sent[1].instructions[1].parsed = MemoText(result.value.memo)
         /\ chain[1].instructions = sent[1].instructions

\* C27 witness: log of M returned a memo without data for a call that
\* passed an empty data mapping.
C27_Witness ==
    /\ impl = "M" /\ pc = "done" /\ Returned
    /\ "data" \in DOMAIN arg /\ DOMAIN arg.data.o = {}
    /\ "data" \notin DOMAIN result.value.memo.o

\* ========================================= claims on query (M) and verify
\* what verify of M returns for a signature of the ledger
VerifyOf(signature) ==
    verifyM(signature, FetchRejects(signature), ParsedTx(signature))

\* C29: query of M is sound with respect to verify. Every entry query
\* returns, on either path, refers to a transaction whose err is unset, and
\* verify of the entry's signature on the same ledger returns valid = true
\* with the memo of the entry.
C29_QuerySoundForVerify ==
    (impl = "M" /\ Returned) =>
      \A n \in 1..Len(result.value) :
        LET e == result.value[n]
            v == VerifyOf(e.signature)
        IN /\ e.signature \in 1..Len(chain)
           /\ ~chain[e.signature].err
           /\ v.status = "returned"
           /\ v.value.valid
           /\ v.value.memo = e.memo

\* C29 witness: query returned an entry while leaving out a failed
\* transaction that carries a valid record.
C29_Witness ==
    /\ impl = "M" /\ Returned /\ pc = "done"
    /\ Len(result.value) > 0
    /\ \E k \in 1..Len(chain) :
         /\ chain[k].err
         /\ VerifyOf(k).value.valid

\* ============================================ claims on query (A), continued
\* C22: every entry implementation A returns from query carries
\* verified = true and a record that passed isValidPayload, on both paths.
C22_VerifiedMeansValid ==
    Returned =>
      \A n \in 1..Len(result.value) :
        /\ result.value[n].verified
        /\ isValidPayload(result.value[n].payload)

\* C24: called with `after` and/or `before`, query of A returns only
\* entries whose block time is known and lies in the window
\* (after <= blockTime <= before), on both paths.
C24_BlockTimeWindowA ==
    (Returned /\ {"after", "before"} \cap DOMAIN options # {}) =>
      \A n \in 1..Len(result.value) :
        LET t == result.value[n].blockTime
        IN /\ t # JNull
           /\ "after" \in DOMAIN options => t.n >= options.after
           /\ "before" \in DOMAIN options => t.n <= options.before

\* C30: query returns at most one entry per transaction: no signature
\* appears at two positions of one result, the listed signatures being
\* distinct.
C30_OneEntryPerTransaction ==
    Returned =>
      \A m, n \in 1..Len(result.value) :
        result.value[m].signature = result.value[n].signature => m = n

\* ============================================== claims on verify, continued
\* the fields of a verify result that are not a count of inspected payloads
PlainFields ==
    {"valid", "signature", "blockTime", "slot", "reason", "error", "memo",
     "entry"}

\* C23: when verify finds the transaction and no valid record decodes from
\* it, the failure it returns carries the count of the raw memo payloads
\* that were inspected.
C23_FailureCountsInspected ==
    (pc = "done" /\ Existing /\ ~HoldsValidRecord) =>
      /\ ~result.value.valid
      /\ DOMAIN result.value \ PlainFields # {}

====
